---- MODULE Spec2Model ----
(***************************************************************************)
(* Review Summarizer popup (extension/popup.js).                           *)
(*                                                                         *)
(* Strings are TLA+ strings, read character by character with Len, SubSeq  *)
(* and \o.  The text cleaner, the selector-based collector and the title   *)
(* resolver are operators computed the way the injected function computes  *)
(* them; queryActiveTabAndScrape, callBackend and summarize are actions    *)
(* split at their await points.                                            *)
(***************************************************************************)
EXTENDS Integers, Sequences, FiniteSets, TLC

(***************************************************************************)
(* Characters                                                              *)
(***************************************************************************)

\* \d of the regular expressions
Digits == {"0", "1", "2", "3", "4", "5", "6", "7", "8", "9"}

\* the characters "." does not match (no s flag)
LineTerminators == {"\n", "\r"}

\* \s of the regular expressions, and what String.prototype.trim strips
WhiteSpace == {" ", "\t", "\n", "\r", "\f"}

LowerMap ==
  ("A" :> "a") @@ ("B" :> "b") @@ ("C" :> "c") @@ ("D" :> "d") @@ ("E" :> "e") @@
  ("F" :> "f") @@ ("G" :> "g") @@ ("H" :> "h") @@ ("I" :> "i") @@ ("J" :> "j") @@
  ("K" :> "k") @@ ("L" :> "l") @@ ("M" :> "m") @@ ("N" :> "n") @@ ("O" :> "o") @@
  ("P" :> "p") @@ ("Q" :> "q") @@ ("R" :> "r") @@ ("S" :> "s") @@ ("T" :> "t") @@
  ("U" :> "u") @@ ("V" :> "v") @@ ("W" :> "w") @@ ("X" :> "x") @@ ("Y" :> "y") @@
  ("Z" :> "z")

CharAt(s, i) == SubSeq(s, i, i)

Min(S) == CHOOSE n \in S : \A m \in S : n <= m

Max(S) == CHOOSE n \in S : \A m \in S : n >= m

\* the i flag: both sides of a comparison are folded to one case (the text is
\* folded half by half, which keeps the evaluation shallow)
RECURSIVE FoldCase(_)
FoldCase(s) ==
  IF s = "" THEN ""
  ELSE IF Len(s) = 1 THEN (IF s \in DOMAIN LowerMap THEN LowerMap[s] ELSE s)
  ELSE LET h == Len(s) \div 2
       IN  FoldCase(SubSeq(s, 1, h)) \o FoldCase(SubSeq(s, h + 1, Len(s)))

(***************************************************************************)
(* cleanReviewText: the noise patterns                                     *)
(***************************************************************************)

\* kind "rating": \d\.\d then the literal;  kind "line": the literal then .*
\* kind "lit": the literal;                 kind "count": \d+ then the literal
noisePatterns == <<
  [kind |-> "rating", lit |-> " out of 5 stars"],
  [kind |-> "line",   lit |-> "reviewed in india on "],
  [kind |-> "line",   lit |-> "reviewed in the united arab emirates on "],
  [kind |-> "lit",    lit |-> "verified purchase"],
  [kind |-> "lit",    lit |-> "helpful"],
  [kind |-> "lit",    lit |-> "report"],
  [kind |-> "count",  lit |-> " people found this helpful"],
  [kind |-> "lit",    lit |-> "one person found this helpful"] >>

\* the literal lit stands in low at index i
LitAt(low, i, lit) ==
  /\ i + Len(lit) - 1 <= Len(low)
  /\ SubSeq(low, i, i + Len(lit) - 1) = lit

\* the length of the longest run of characters of set cs that starts at index i
RunLen(s, i, cs) ==
  LET stops == {j \in i..Len(s) : CharAt(s, j) \notin cs}
  IN  IF i > Len(s) THEN 0
      ELSE IF stops = {} THEN Len(s) - i + 1
      ELSE Min(stops) - i

\* the length of the run of characters outside cs that starts at index i
RunLenNot(s, i, cs) ==
  LET stops == {j \in i..Len(s) : CharAt(s, j) \in cs}
  IN  IF i > Len(s) THEN 0
      ELSE IF stops = {} THEN Len(s) - i + 1
      ELSE Min(stops) - i

\* the length of the match of pattern p that starts at index i of the
\* case-folded text low, 0 when there is none (no pattern matches "")
MatchLen(p, low, i) ==
  CASE p.kind = "lit" ->
         IF LitAt(low, i, p.lit) THEN Len(p.lit) ELSE 0
    [] p.kind = "rating" ->
         IF /\ i + 2 <= Len(low)
            /\ CharAt(low, i) \in Digits
            /\ CharAt(low, i + 1) = "."
            /\ CharAt(low, i + 2) \in Digits
            /\ LitAt(low, i + 3, p.lit)
         THEN 3 + Len(p.lit) ELSE 0
    [] p.kind = "line" ->
         IF LitAt(low, i, p.lit)
         THEN Len(p.lit) + RunLenNot(low, i + Len(p.lit), LineTerminators)
         ELSE 0
    [] p.kind = "count" ->
         LET d == RunLen(low, i, Digits)
         IN  IF d > 0 /\ LitAt(low, i + d, p.lit) THEN d + Len(p.lit) ELSE 0

\* String.prototype.replace(pattern, '') with the g flag: one left-to-right
\* scan; the leftmost match at or after index i is deleted and the next match
\* is looked for after its end
RECURSIVE ScanDelete(_, _, _, _)
ScanDelete(s, low, p, i) ==
  LET starts == {j \in i..Len(s) : MatchLen(p, low, j) > 0}
  IN  IF starts = {} THEN SubSeq(s, i, Len(s))
      ELSE LET j == Min(starts)
           IN  SubSeq(s, i, j - 1)
                 \o ScanDelete(s, low, p, j + MatchLen(p, low, j))

ReplaceAll(s, p) == ScanDelete(s, FoldCase(s), p, 1)

\* noisePatterns.forEach(pattern => cleanedText = cleanedText.replace(...)),
\* patterns k..8 in list order
RECURSIVE RemoveNoise(_, _)
RemoveNoise(s, k) ==
  IF k > Len(noisePatterns) THEN s
  ELSE RemoveNoise(ReplaceAll(s, noisePatterns[k]), k + 1)

\* some pattern matches somewhere in s
HasNoise(s) ==
  LET low == FoldCase(s)
  IN  \E k \in 1..Len(noisePatterns) : \E i \in 1..Len(s) :
        MatchLen(noisePatterns[k], low, i) > 0

(***************************************************************************)
(* cleanReviewText: lines and whitespace                                   *)
(***************************************************************************)

\* String.prototype.split('\n')
RECURSIVE Split(_)
Split(s) ==
  LET n == RunLenNot(s, 1, {"\n"})
  IN  IF n = Len(s) THEN <<s>>
      ELSE <<SubSeq(s, 1, n)>> \o Split(SubSeq(s, n + 2, Len(s)))

\* String.prototype.trim
Trim(s) ==
  LET inked == {j \in 1..Len(s) : CharAt(s, j) \notin WhiteSpace}
  IN  IF inked = {} THEN "" ELSE SubSeq(s, Min(inked), Max(inked))

\* String.prototype.includes(' ')
IncludesSpace(s) == \E i \in 1..Len(s) : CharAt(s, i) = " "

\* the line threshold of the filter
MinLineLength == 15

\* a filter whose threshold is ten characters higher
KeepLineWide(line) ==
  LET trimmed == Trim(line)
  IN  Len(trimmed) > MinLineLength + 10 /\ IncludesSpace(trimmed)

\* the predicate of lines.filter
KeepLine(line) ==
  LET trimmed == Trim(line)
  IN  Len(trimmed) > MinLineLength /\ IncludesSpace(trimmed)

RECURSIVE Filter(_)
Filter(lines) ==
  IF lines = <<>> THEN <<>>
  ELSE (IF KeepLine(Head(lines)) THEN <<Head(lines)>> ELSE <<>>)
         \o Filter(Tail(lines))

\* Array.prototype.join(' ')
RECURSIVE Join(_)
Join(lines) ==
  IF lines = <<>> THEN ""
  ELSE IF Len(lines) = 1 THEN lines[1]
  ELSE lines[1] \o " " \o Join(Tail(lines))

\* replace(/\s\s+/g, ' '): a run of two or more whitespace characters becomes
\* one space, a single whitespace character stays what it is
RECURSIVE Collapse(_, _)
Collapse(s, i) ==
  LET starts == {j \in i..Len(s) : RunLen(s, j, WhiteSpace) >= 2}
  IN  IF starts = {} THEN SubSeq(s, i, Len(s))
      ELSE LET j == Min(starts)
           IN  SubSeq(s, i, j - 1) \o " "
                 \o Collapse(s, j + RunLen(s, j, WhiteSpace))

cleanReviewText(text) ==
  IF text = "" THEN ""
  ELSE Trim(Collapse(Join(Filter(Split(RemoveNoise(text, 1)))), 1))

(***************************************************************************)
(* The page: what the selectors match                                      *)
(***************************************************************************)

\* a || b on strings: the empty string (like undefined) is falsy
Or(a, b) == IF a # "" THEN a ELSE b

\* an element as the injected function reads it
Element(innerText, textContent) ==
  [innerText |-> innerText, textContent |-> textContent]

\* querySelectorAll(sel) matching nothing
NoMatch == [els |-> <<>>, throwAt |-> -1]

\* the review selectors (by position in the list) and the title selectors
reviewSelectors == <<1, 2, 3, 4, 5, 6, 7, 8>>

titleSelectors == <<1, 2, 3, 4, 5>>

\* reviews.slice(0, 30)
MaxReviews == 30

\* cleanedText.length > 20
MinReviewLength == 20

(***************************************************************************)
(* gatherTextFromSelectors                                                 *)
(***************************************************************************)

\* a callback that looks up the raw text, not the cleaned text, in uniqueTexts
VisitElementByRaw(acc, el) ==
  LET rawText == Trim(Or(Or(el.innerText, el.textContent), ""))
      cleaned == cleanReviewText(rawText)
  IN  IF cleaned # "" /\ Len(cleaned) > MinReviewLength
         /\ rawText \notin acc.uniqueTexts
      THEN [acc EXCEPT !.uniqueTexts = @ \cup {rawText},
                       !.out = Append(@, cleaned)]
      ELSE acc

\* the body of the inner forEach callback; acc is [out, uniqueTexts, exc]
VisitElement(acc, el) ==
  LET rawText == Trim(Or(Or(el.innerText, el.textContent), ""))
      cleaned == cleanReviewText(rawText)
  IN  IF cleaned # "" /\ Len(cleaned) > MinReviewLength
         /\ cleaned \notin acc.uniqueTexts
      THEN [acc EXCEPT !.uniqueTexts = @ \cup {cleaned},
                       !.out = Append(@, cleaned)]
      ELSE acc

\* the one element of a singleton set
The(S) == CHOOSE r \in S : TRUE

\* elements lo..hi of a NodeList, in document order (the range is walked half
\* by half, the first half to its end before the second, which keeps the
\* evaluation shallow)
RECURSIVE VisitElements(_, _, _, _)
VisitElements(acc, els, lo, hi) ==
  IF lo > hi THEN acc
  ELSE IF lo = hi THEN VisitElement(acc, els[lo])
  ELSE LET mid == (lo + hi) \div 2
       IN  The({ VisitElements(first, els, mid + 1, hi) :
                   first \in {VisitElements(acc, els, lo, mid)} })

\* the try block of one selector: q.throwAt = -1 when nothing throws, else the
\* number of elements visited before the exception (0: querySelectorAll throws)
TrySelector(acc, q) ==
  IF q.throwAt = -1 THEN VisitElements(acc, q.els, 1, Len(q.els))
  ELSE [VisitElements(acc, q.els, 1, q.throwAt) EXCEPT !.exc = TRUE]

\* a selector visited without the try/catch
VisitSelectorNoCatch(acc, q) == TrySelector(acc, q)

\* try { ... } catch (e) { /* ignore bad selectors */ }
VisitSelector(acc, q) == [TrySelector(acc, q) EXCEPT !.exc = FALSE]

\* selectors.forEach from position k on; an exception that escapes ends it
RECURSIVE ForEachSelector(_, _, _, _)
ForEachSelector(acc, selectors, document, k) ==
  IF k > Len(selectors) \/ acc.exc THEN acc
  ELSE The({ ForEachSelector(next, selectors, document, k + 1) :
               next \in {VisitSelector(acc, document.reviews[selectors[k]])} })

\* [out, exc]: the returned array, or exc when the call throws
gatherTextFromSelectors(selectors, document) ==
  LET r == ForEachSelector([out |-> <<>>, uniqueTexts |-> {}, exc |-> FALSE],
                           selectors, document, 1)
  IN  [out |-> r.out, exc |-> r.exc]

\* a slice that keeps one entry more
SliceLong(a, n) == SubSeq(a, 1, IF Len(a) < n + 1 THEN Len(a) ELSE n + 1)

\* Array.prototype.slice(0, n)
Slice(a, n) == SubSeq(a, 1, IF Len(a) < n THEN Len(a) ELSE n)

(***************************************************************************)
(* The title loop                                                          *)
(***************************************************************************)

\* q.state: "none" (querySelector returns null), "throws", or "el" with q.el
RECURSIVE ResolveTitle(_, _)
ResolveTitle(document, k) ==
  IF k > Len(titleSelectors) THEN ""
  ELSE LET q == document.titles[titleSelectors[k]]
       IN  IF q.state = "el" /\ Or(q.el.innerText, q.el.textContent) # ""
           THEN Trim(Or(q.el.innerText, q.el.textContent))
           ELSE ResolveTitle(document, k + 1)

\* the injected function: [exc, result]
InjectedFunc(document) ==
  LET g == gatherTextFromSelectors(reviewSelectors, document)
  IN  IF g.exc THEN [exc |-> TRUE, out |-> g.out, result |-> <<>>]
      ELSE [exc |-> FALSE, out |-> g.out,
            result |-> << [reviews |-> Slice(g.out, MaxReviews),
                           title |-> ResolveTitle(document, 1),
                           url |-> document.href] >>]

(***************************************************************************)
(* Bounds and inputs                                                       *)
(***************************************************************************)

\* summarize invocations that may overlap (clicks on the button)
MaxClicks == 2

\* fragments concatenated into one input of cleanReviewText
MaxFrags == 3

\* elements one selector matches in the small pages
MaxEls == 2

\* distinct reviews on the long pages (more than MaxReviews)
MaxBulk == 32

Runs == 1..MaxClicks

RECURSIVE SeqsUpTo(_, _)
SeqsUpTo(S, n) ==
  IF n = 0 THEN {<<>>}
  ELSE LET shorter == SeqsUpTo(S, n - 1)
       IN  shorter \cup {Append(q, e) : q \in shorter, e \in S}

RECURSIVE Concat(_)
Concat(fs) == IF fs = <<>> THEN "" ELSE Head(fs) \o Concat(Tail(fs))

Fragments ==
  {"Help", "Report", "ful", "Verified", "Purchase", " ", "\n",
   "good", "            ", "9"}

Tails == {"", " battery lasts very long", " people found this helpful a lot"}

CleanInputs ==
  {Concat(fs) \o t : fs \in SeqsUpTo(Fragments, MaxFrags), t \in Tails}

Plain(t) == Element(t, t)

\* a review; the same review under its rating and badge; the review in lower
\* case, readable through textContent only; a text of exactly 20 characters
PoolElements ==
  { Plain("Great battery life and build quality overall"),
    Plain("4.5 out of 5 stars\nVerified Purchase\nGreat battery life and build quality overall"),
    Element("", "  great battery life and build quality overall "),
    Plain("works well for me ok") }

\* what the last selector matches: the review again, its lower-case form,
\* noise only, a short line
LastElements ==
  { Plain("Great battery life and build quality overall"),
    Element("", "  great battery life and build quality overall "),
    Plain("Helpful\nReport"),
    Plain("Nice one") }

DigitStr == <<"0", "1", "2", "3", "4", "5", "6", "7", "8", "9">>

\* the k-th review of a long page
GenReview(k) ==
  Plain("Unit " \o DigitStr[(k \div 10) + 1] \o DigitStr[(k % 10) + 1]
          \o " works very well indeed")

GenReviews(lo, hi) == [k \in 1..(IF hi < lo THEN 0 ELSE hi - lo + 1) |-> GenReview(lo + k - 1)]

NoTitle == [state |-> "none", el |-> Plain("")]

TitleQueries ==
  { NoTitle,
    [state |-> "throws", el |-> Plain("")],
    [state |-> "el", el |-> Plain("   ")],
    [state |-> "el", el |-> Element("", "")],
    [state |-> "el", el |-> Element("", "Wireless Mouse")],
    [state |-> "el", el |-> Plain(" Laser Mouse\n")] }

Href == "https://shop.example/item/42"

Page(reviews, titles) ==
  [reviews |-> reviews, titles |-> titles, href |-> Href]

NoReviews == [k \in 1..Len(reviewSelectors) |-> NoMatch]

NoTitles == [k \in 1..Len(titleSelectors) |-> NoTitle]

\* small pages: selector 2 matches a, selector 8 matches b, and the query of
\* selector bad throws after t elements (t = -1: no query throws)
SmallPage(a, b, bad, t) ==
  Page([NoReviews EXCEPT ![2] = [els |-> a, throwAt |-> -1],
                         ![8] = [els |-> b, throwAt |-> -1],
                         ![bad] = [@ EXCEPT !.throwAt = t]],
       NoTitles)

SmallPages ==
  { SmallPage(c[1], c[2], c[3], c[4]) :
      c \in { d \in SeqsUpTo(PoolElements, MaxEls) \X SeqsUpTo(LastElements, 1)
                      \X {2, 5} \X (-1..MaxEls) :
                d[4] <= (IF d[3] = 2 THEN Len(d[1]) ELSE 0) } }

\* long pages: selector 1 matches reviews 1..n, selector 4 reviews lo..MaxBulk
LongPage(n, lo) ==
  Page([NoReviews EXCEPT ![1] = [els |-> GenReviews(1, n), throwAt |-> -1],
                         ![4] = [els |-> GenReviews(lo, MaxBulk), throwAt |-> -1]],
       [NoTitles EXCEPT ![3] = [state |-> "el", el |-> Plain("Unit")]])

LongPages ==
  { LongPage(n, lo) : n \in (MaxBulk - 3)..MaxBulk,
                      lo \in {MaxBulk - 4, MaxBulk, MaxBulk + 1} }

\* pages that differ in what the title selectors 1, 3 and 5 match
TitlePages ==
  { Page([NoReviews EXCEPT ![3] = [els |-> r, throwAt |-> -1]],
         [NoTitles EXCEPT ![1] = t1, ![3] = t3, ![5] = t5]) :
      r \in SeqsUpTo({GenReview(7)}, 1),
      t1 \in TitleQueries, t3 \in TitleQueries, t5 \in TitleQueries }

ScrapePages == SmallPages \cup LongPages \cup TitlePages

\* the pages of the summarize runs: nothing matches; two distinct reviews and
\* a title; more than MaxReviews reviews
FlowPages ==
  { Page(NoReviews, NoTitles),
    Page(NoReviews, [NoTitles EXCEPT ![3] = [state |-> "el", el |-> Plain("Wireless Mouse")]]),
    Page([NoReviews EXCEPT ![2] = [els |-> GenReviews(1, 2), throwAt |-> -1]],
         [NoTitles EXCEPT ![1] = [state |-> "el", el |-> Plain("Wireless Mouse")]]),
    LongPage(MaxBulk, MaxBulk + 1) }

\* the injected function run in each of the pages
FlowScripts == [d \in FlowPages |-> InjectedFunc(d)]

ScrapeScripts == [d \in ScrapePages |-> InjectedFunc(d)]

(***************************************************************************)
(* State                                                                   *)
(***************************************************************************)

VARIABLES
  text,         \* cleanReviewText: the argument
  cleanedText,  \* its result
  recleaned,    \* the result of cleaning the result again
  cpc,          \* "start", "cleaned", "recleaned"
  pc,           \* per run of summarize: the await it is suspended at
  document,     \* per run: << >> or <<the page the injected function ran in>>
  out,          \* per run: the array gatherTextFromSelectors returned there
  scraped,      \* per run: << >> or <<what queryActiveTabAndScrape returned>>
  thrown,       \* per run: << >> or <<[from, message] caught by summarize>>
  payload,      \* per run: the bodies sent to the backend, in order
  rendered,     \* per run: renderResults has run to its end
  host,         \* per run: how the host answered the scrape, "" before
  backend,      \* per run: callBackend is "" (not called), "pending",
                \* "failed" or "succeeded"
  hidden,       \* the ids among error, result, loader with class hidden
  productInfo,  \* innerText of #productInfo
  errorText,    \* innerText of #error
  resultView,   \* what renderResults last wrote to the result panel
  titleShown    \* the DOMContentLoaded task has set #productInfo

cleanVars == <<text, cleanedText, recleaned, cpc>>

runVars ==
  <<pc, document, out, scraped, thrown, payload, rendered, host, backend>>

domVars == <<hidden, productInfo, errorText, resultView, titleShown>>

vars == <<cleanVars, runVars, domVars>>

Panels == {"error", "result", "loader"}

\* the messages of the errors the popup throws itself
NoActiveTab == "No active tab found."

ScrapeFailed == "Failed to scrape the page."

NoReviewsFound == "No reviews found on this page. Try opening the \"all reviews\" section."

BackendFailed == "Backend request failed"

\* messages of errors the host raises
TabsQueryRejected == "tabs.query rejected"

ScriptRejected == "Cannot access contents of the page"

FetchRejected == "Failed to fetch"

JsonRejected == "Unexpected token in JSON"

RenderFailed == "Cannot read properties of null (reading 'raw')"

InjectedThrew == "Uncaught SyntaxError in the injected function"

show(h, id) == h \ {id}

hide(h, id) == h \cup {id}


(***************************************************************************)
(* cleanReviewText on its own                                              *)
(***************************************************************************)

InitRuns ==
  /\ pc = [i \in Runs |-> "idle"]
  /\ document = [i \in Runs |-> <<>>]
  /\ out = [i \in Runs |-> <<>>]
  /\ scraped = [i \in Runs |-> <<>>]
  /\ thrown = [i \in Runs |-> <<>>]
  /\ payload = [i \in Runs |-> <<>>]
  /\ rendered = [i \in Runs |-> FALSE]
  /\ host = [i \in Runs |-> ""]
  /\ backend = [i \in Runs |-> ""]
  /\ productInfo = ""
  /\ errorText = ""
  /\ resultView = ""
  /\ titleShown = FALSE

InitClean ==
  /\ text \in CleanInputs
  /\ cleanedText = ""
  /\ recleaned = ""
  /\ cpc = "start"
  /\ hidden = Panels
  /\ InitRuns

Clean ==
  /\ cpc = "start"
  /\ cleanedText' = cleanReviewText(text)
  /\ cpc' = "cleaned"
  /\ UNCHANGED <<text, recleaned, runVars, domVars>>

CleanAgain ==
  /\ cpc = "cleaned"
  /\ recleaned' = cleanReviewText(cleanedText)
  /\ cpc' = "recleaned"
  /\ UNCHANGED <<text, cleanedText, runVars, domVars>>

NextClean == Clean \/ CleanAgain

SpecClean == InitClean /\ [][NextClean]_vars

(***************************************************************************)
(* summarize and queryActiveTabAndScrape                                   *)
(***************************************************************************)

\* the popup before the first click; popup.html decides which panels start
\* hidden
Init ==
  /\ text = ""
  /\ cleanedText = ""
  /\ recleaned = ""
  /\ cpc = "start"
  /\ hidden \in SUBSET Panels
  /\ InitRuns

\* the catch block of summarize, entered by run i with an error thrown by from
Catch(i, from, message) ==
  /\ pc' = [pc EXCEPT ![i] = "done"]
  /\ thrown' = [thrown EXCEPT ![i] = <<[from |-> from, message |-> message]>>]
  /\ hidden' = show(hide(hidden, "loader"), "error")
  /\ errorText' = message

\* the click handler up to its first await (runs are numbered in click order)
Click(i) ==
  /\ pc[i] = "idle"
  /\ IF i = 1 THEN TRUE ELSE pc[i - 1] # "idle"
  /\ hidden' = show(hide(hide(hidden, "error"), "result"), "loader")
  /\ pc' = [pc EXCEPT ![i] = "tabsQuery"]
  /\ UNCHANGED <<cleanVars, document, out, scraped, thrown, payload, rendered,
                 host, backend, productInfo, errorText, resultView, titleShown>>

\* const [tab] = await chrome.tabs.query(...); if (!tab) throw ...
TabsQueryResolves(i) ==
  /\ pc[i] = "tabsQuery"
  /\ \E answer \in {"tabsRejected", "noTab", "tab"} :
       /\ host' = [host EXCEPT ![i] = answer]
       /\ CASE answer = "tabsRejected" ->
                 /\ Catch(i, "scrape", TabsQueryRejected)
                 /\ UNCHANGED <<productInfo>>
            [] answer = "noTab" ->
                 /\ Catch(i, "scrape", NoActiveTab)
                 /\ UNCHANGED <<productInfo>>
            [] answer = "tab" ->
                 /\ pc' = [pc EXCEPT ![i] = "executeScript"]
                 /\ UNCHANGED <<thrown, hidden, errorText, productInfo>>
  /\ UNCHANGED <<cleanVars, document, out, scraped, payload, rendered, backend,
                 resultView, titleShown>>

\* a return that also throws on an empty reviews array
ScrapeReturnStrict(results) ==
  IF results = <<>> \/ Len(results[1].reviews) = 0
  THEN [thrown |-> <<ScrapeFailed>>, value |-> <<>>]
  ELSE [thrown |-> <<>>, value |-> results]

\* a return without the !scraped test
ScrapeReturnLax(results) == [thrown |-> <<>>, value |-> results]

\* const scraped = results?.[0]?.result; if (!scraped) throw ...; return scraped
\* (results is << >> when the host hands back no result)
ScrapeReturn(results) ==
  IF results = <<>> THEN [thrown |-> <<ScrapeFailed>>, value |-> <<>>]
  ELSE [thrown |-> <<>>, value |-> results]

\* a test that lets an empty reviews array through
HasNoReviewsLax(s) == s = <<>>

\* !scraped || !scraped.reviews || scraped.reviews.length === 0
HasNoReviews(s) == s = <<>> \/ Len(s[1].reviews) = 0

\* summarize from the return of queryActiveTabAndScrape to its next await
AfterScrape(i, results) ==
  \E r \in {ScrapeReturn(results)} :
      IF r.thrown # <<>>
      THEN /\ Catch(i, "scrape", r.thrown[1])
           /\ UNCHANGED <<scraped, payload, backend, productInfo>>
      ELSE /\ scraped' = [scraped EXCEPT ![i] = r.value]
           /\ IF HasNoReviews(r.value)
              THEN /\ Catch(i, "summarize", NoReviewsFound)
                   /\ UNCHANGED <<payload, backend, productInfo>>
              ELSE /\ productInfo' = Or(r.value[1].title, "Product Page")
                   /\ payload' = [payload EXCEPT ![i] =
                                    Append(@, [reviews |-> r.value[1].reviews,
                                               title |-> Or(r.value[1].title, ""),
                                               url |-> Or(r.value[1].url, "")])]
                   /\ backend' = [backend EXCEPT ![i] = "pending"]
                   /\ pc' = [pc EXCEPT ![i] = "fetch"]
                   /\ UNCHANGED <<thrown, hidden, errorText>>

\* await chrome.scripting.executeScript(...): the host rejects, hands back no
\* result, or runs the injected function in the page of the tab (scripts maps
\* each page the tab may show to what the injected function does there)
ExecuteScriptResolves(i, scripts) ==
  /\ pc[i] = "executeScript"
  /\ \/ /\ host' = [host EXCEPT ![i] = "scriptRejected"]
        /\ Catch(i, "scrape", ScriptRejected)
        /\ UNCHANGED <<document, out, scraped, payload, backend, productInfo>>
     \/ /\ host' = [host EXCEPT ![i] = "noResult"]
        /\ AfterScrape(i, <<>>)
        /\ UNCHANGED <<document, out>>
     \/ \E d \in DOMAIN scripts :
          \E f \in {scripts[d]} :
              /\ document' = [document EXCEPT ![i] = <<d>>]
              /\ out' = [out EXCEPT ![i] = f.out]
              /\ IF f.exc
                 THEN /\ host' = [host EXCEPT ![i] = "scriptRejected"]
                      /\ Catch(i, "scrape", InjectedThrew)
                      /\ UNCHANGED <<scraped, payload, backend, productInfo>>
                 ELSE /\ host' = [host EXCEPT ![i] = "result"]
                      /\ AfterScrape(i, f.result)
  /\ UNCHANGED <<cleanVars, rendered, resultView, titleShown>>

\* const response = await fetch(...)
FetchResolves(i) ==
  /\ pc[i] = "fetch"
  /\ \E answer \in {"rejected", "notOk", "ok"} :
       CASE answer = "rejected" ->
              /\ Catch(i, "backend", FetchRejected)
              /\ backend' = [backend EXCEPT ![i] = "failed"]
         [] answer = "notOk" ->
              /\ pc' = [pc EXCEPT ![i] = "responseText"]
              /\ UNCHANGED <<thrown, hidden, errorText, backend>>
         [] answer = "ok" ->
              /\ pc' = [pc EXCEPT ![i] = "responseJson"]
              /\ UNCHANGED <<thrown, hidden, errorText, backend>>
  /\ UNCHANGED <<cleanVars, document, out, scraped, payload, rendered, host,
                 productInfo, resultView, titleShown>>

\* const text = await response.text().catch(() => ''); throw ...
ResponseTextResolves(i) ==
  /\ pc[i] = "responseText"
  /\ Catch(i, "backend", BackendFailed)
  /\ backend' = [backend EXCEPT ![i] = "failed"]
  /\ UNCHANGED <<cleanVars, document, out, scraped, payload, rendered, host,
                 productInfo, resultView, titleShown>>

\* what response.json() resolves to
BackendData == {"raw", "structured", "null"}

\* return await response.json(); renderResults(backendData); hide; show
ResponseJsonResolves(i) ==
  /\ pc[i] = "responseJson"
  /\ \E data \in {"rejected"} \cup BackendData :
       CASE data = "rejected" ->
              /\ Catch(i, "backend", JsonRejected)
              /\ backend' = [backend EXCEPT ![i] = "failed"]
              /\ UNCHANGED <<rendered, resultView>>
         [] data = "null" ->
              /\ Catch(i, "render", RenderFailed)
              /\ backend' = [backend EXCEPT ![i] = "succeeded"]
              /\ UNCHANGED <<rendered, resultView>>
         [] OTHER ->
              /\ backend' = [backend EXCEPT ![i] = "succeeded"]
              /\ resultView' = data
              /\ rendered' = [rendered EXCEPT ![i] = TRUE]
              /\ hidden' = show(hide(hidden, "loader"), "result")
              /\ pc' = [pc EXCEPT ![i] = "done"]
              /\ UNCHANGED <<thrown, errorText>>
  /\ UNCHANGED <<cleanVars, document, out, scraped, payload, host,
                 productInfo, titleShown>>

\* the async task of the DOMContentLoaded listener
ShowTabTitle ==
  /\ ~titleShown
  /\ titleShown' = TRUE
  /\ \E title \in {"rejected", "", "Wireless Mouse - Shop"} :
       productInfo' = IF title = "rejected" THEN productInfo
                      ELSE Or(title, "Open a product page and click Summarize")
  /\ UNCHANGED <<cleanVars, runVars, hidden, errorText, resultView>>

Next ==
  \/ ShowTabTitle
  \/ \E i \in Runs :
       \/ Click(i)
       \/ TabsQueryResolves(i)
       \/ ExecuteScriptResolves(i, FlowScripts)
       \/ FetchResolves(i)
       \/ ResponseTextResolves(i)
       \/ ResponseJsonResolves(i)

Spec == Init /\ [][Next]_vars

\* one run of queryActiveTabAndScrape over the pages of ScrapePages
NextScrape ==
  \/ Click(1)
  \/ TabsQueryResolves(1)
  \/ ExecuteScriptResolves(1, ScrapeScripts)

SpecScrape == Init /\ [][NextScrape]_vars

(***************************************************************************)
(* Properties of cleanReviewText (SpecClean)                               *)
(***************************************************************************)

\* C1: the result of cleanReviewText contains no match of any of the eight
\* noise patterns, also when a deletion or the whitespace collapse brings the
\* pieces of a pattern together.
C1_NoNoiseInResult == cpc # "start" => ~HasNoise(cleanedText)

\* C5 as stated: clean("") is "", and cleaning a result that holds no noise
\* match once more leaves it as it is, for every input.
C5_Idempotent ==
  /\ (text = "" /\ cpc # "start") => cleanedText = ""
  /\ (cpc = "recleaned" /\ ~HasNoise(cleanedText)) => recleaned = cleanedText

\* C5 as amended: clean("") is "", and cleaning a result that holds no noise
\* match once more leaves it as it is when that result is empty or longer than
\* the line threshold of 15 characters.
C5_IdempotentOnLongResults ==
  /\ (text = "" /\ cpc # "start") => cleanedText = ""
  /\ ( /\ cpc = "recleaned"
       /\ ~HasNoise(cleanedText)
       /\ cleanedText = "" \/ Len(cleanedText) > MinLineLength )
       => recleaned = cleanedText

\* a result the cleaning shortened, longer than the threshold and free of
\* noise, cleaned once more
C5_Witness ==
  /\ cpc = "recleaned"
  /\ Len(cleanedText) > MinLineLength
  /\ Len(cleanedText) < Len(text)
  /\ ~HasNoise(cleanedText)
  /\ recleaned = cleanedText

(***************************************************************************)
(* Properties of one scrape (SpecScrape)                                   *)
(***************************************************************************)

\* the cleaned text of an element
Cleaned(el) ==
  cleanReviewText(Trim(Or(Or(el.innerText, el.textContent), "")))

\* the elements of a query the loop gets to
Reached(q) == IF q.throwAt = -1 THEN q.els ELSE SubSeq(q.els, 1, q.throwAt)

\* the cleaned texts of the elements reached, by selector-list order and then
\* by document order, from selector k on
RECURSIVE Discovered(_, _)
Discovered(d, k) ==
  IF k > Len(reviewSelectors) THEN <<>>
  ELSE LET els == Reached(d.reviews[reviewSelectors[k]])
       IN  [j \in 1..Len(els) |-> Cleaned(els[j])] \o Discovered(d, k + 1)

\* the accepted candidates: the texts longer than 20, each at its first place
Candidates(d) ==
  LET f == Discovered(d, 1)
      I == {j \in 1..Len(f) :
              Len(f[j]) > MinReviewLength /\ \A h \in 1..(j - 1) : f[h] # f[j]}
  IN  [r \in 1..Cardinality(I) |->
         f[CHOOSE j \in I : Cardinality({h \in I : h <= j}) = r]]

Range(q) == {q[j] : j \in 1..Len(q)}

\* C2: what gatherTextFromSelectors returns is pairwise distinct, every entry
\* is longer than 20, and every text longer than 20 that some reached element
\* cleans to is there exactly once, whichever selectors matched it.
C2_DistinctAndLong ==
  \A i \in Runs : document[i] # <<>> =>
    LET o == out[i]
        f == Discovered(document[i][1], 1)
    IN  /\ \A a \in 1..Len(o) : \A b \in 1..Len(o) : a # b => o[a] # o[b]
        /\ \A a \in 1..Len(o) : Len(o[a]) > MinReviewLength
        /\ \A j \in 1..Len(f) : Len(f[j]) > MinReviewLength =>
             Cardinality({a \in 1..Len(o) : o[a] = f[j]}) = 1

\* two elements with different raw text and the same cleaned text, matched by
\* different selectors, have given one entry
C2_Witness ==
  \E i \in Runs :
    /\ document[i] # <<>>
    /\ LET a == document[i][1].reviews[2]
           b == document[i][1].reviews[8]
       IN  /\ a.throwAt = -1 /\ Len(a.els) = 1 /\ Len(b.els) = 1
           /\ a.els[1].innerText # b.els[1].innerText
           /\ Cleaned(a.els[1]) = Cleaned(b.els[1])
           /\ Len(Cleaned(a.els[1])) > MinReviewLength
    /\ Len(out[i]) = 1

\* C3: the reviews of the result are the first min(30, n) of the n accepted
\* candidates, in selector-list order and then document order; never more
\* than 30.
C3_FirstThirty ==
  \A i \in Runs : (document[i] # <<>> /\ scraped[i] # <<>>) =>
    LET c == Candidates(document[i][1])
        r == scraped[i][1].reviews
    IN  /\ Len(r) = (IF Len(c) < MaxReviews THEN Len(c) ELSE MaxReviews)
        /\ Len(r) <= MaxReviews
        /\ \A j \in 1..Len(r) : r[j] = c[j]

\* more than 30 candidates, the 30th found by a later selector
C3_Witness ==
  \E i \in Runs :
    /\ document[i] # <<>> /\ scraped[i] # <<>>
    /\ Len(Candidates(document[i][1])) > MaxReviews
    /\ Len(document[i][1].reviews[1].els) < MaxReviews
    /\ Len(scraped[i][1].reviews) = MaxReviews

\* the text of the element title selector k matches, "" when there is none
TitleText(d, k) ==
  LET q == d.titles[titleSelectors[k]]
  IN  IF q.state = "el" THEN Trim(Or(q.el.innerText, q.el.textContent)) ELSE ""

\* C4: the title is the trimmed text of the first selector whose element has
\* non-empty text, and "" only when no selector has one, also when an earlier
\* selector matches an element of whitespace only.
C4_FirstNonEmptyTitle ==
  \A i \in Runs : (document[i] # <<>> /\ scraped[i] # <<>>) =>
    LET d == document[i][1]
        good == {k \in 1..Len(titleSelectors) : TitleText(d, k) # ""}
    IN  scraped[i][1].title = (IF good = {} THEN "" ELSE TitleText(d, Min(good)))

\* C6: a query that throws is absorbed for its selector: the injected function
\* does not throw, and every candidate reached, before the failure and under
\* the later selectors, is in the output.
C6_SelectorFailureAbsorbed ==
  \A i \in Runs : document[i] # <<>> =>
    /\ host[i] = "result"
    /\ LET f == Discovered(document[i][1], 1)
       IN  \A j \in 1..Len(f) :
             Len(f[j]) > MinReviewLength => f[j] \in Range(out[i])

\* selector 2 throws after its first element, which was accepted, and
\* selector 8 then adds another entry
C6_Witness ==
  \E i \in Runs :
    /\ document[i] # <<>>
    /\ LET a == document[i][1].reviews[2]
           b == document[i][1].reviews[8]
       IN  /\ a.throwAt = 1 /\ Len(a.els) = 2 /\ Len(b.els) = 1
           /\ out[i] = <<Cleaned(a.els[1]), Cleaned(b.els[1])>>

\* no element matches any review selector
NothingMatches(d) == \A k \in 1..Len(reviewSelectors) : d.reviews[k].els = <<>>

\* C7: when nothing matches, queryActiveTabAndScrape returns reviews << >>
\* with the title and the location without throwing; "no reviews found" is
\* thrown by summarize.
C7_EmptyIsReturned ==
  \A i \in Runs : (document[i] # <<>> /\ NothingMatches(document[i][1])) =>
    /\ host[i] = "result"
    /\ scraped[i] = << [reviews |-> <<>>,
                        title |-> ResolveTitle(document[i][1], 1),
                        url |-> document[i][1].href] >>
    /\ thrown[i] = << [from |-> "summarize", message |-> NoReviewsFound] >>
    /\ backend[i] = ""

\* nothing matches, a title is found, one selector query throws
C7_Witness ==
  \E i \in Runs :
    /\ document[i] # <<>> /\ NothingMatches(document[i][1])
    /\ scraped[i] # <<>> /\ scraped[i][1].title = "Wireless Mouse"
    /\ pc[i] = "done"

(***************************************************************************)
(* Properties of the summarize runs (Spec)                                 *)
(***************************************************************************)

\* the host could not run the scrape for run i
Unavailable(i) ==
  host[i] \in {"tabsRejected", "noTab", "scriptRejected", "noResult"}

AllFinished ==
  /\ \E i \in Runs : pc[i] = "done"
  /\ \A i \in Runs : pc[i] \in {"idle", "done"}

\* C9: after a click the result and the error panel are never both visible,
\* and once every run has finished the loader is hidden and exactly one of
\* the two is visible.
C9_OnePanel ==
  /\ pc[1] # "idle" => ~("result" \notin hidden /\ "error" \notin hidden)
  /\ AllFinished =>
       /\ "loader" \in hidden
       /\ ("result" \in hidden) # ("error" \in hidden)

\* C10: a run calls the backend at most once, only after a scrape that
\* returned 1..30 reviews, which are the payload; renderResults runs only
\* after the backend call succeeded.
C10_BackendAfterScrape ==
  \A i \in Runs :
    /\ Len(payload[i]) <= 1
    /\ (backend[i] = "") = (payload[i] = <<>>)
    /\ payload[i] # <<>> =>
         /\ host[i] = "result" /\ scraped[i] # <<>>
         /\ payload[i][1].reviews = scraped[i][1].reviews
         /\ Len(payload[i][1].reviews) >= 1
         /\ Len(payload[i][1].reviews) <= MaxReviews
    /\ rendered[i] => backend[i] = "succeeded"
    /\ (thrown[i] # <<>> /\ thrown[i][1].from \in {"scrape", "summarize"})
         => (backend[i] = "" /\ ~rendered[i])
    /\ backend[i] = "failed" => ~rendered[i]

\* a run with a payload of 30 reviews has rendered the answer
C10_Witness ==
  \E i \in Runs :
    /\ rendered[i]
    /\ Len(payload[i]) = 1
    /\ Len(payload[i][1].reviews) = MaxReviews

====
